---- MODULE Spec2Model ----
(***************************************************************************)
(* gwpopulation: the backend registry (gwpopulation/backend.py) and the    *)
(* redshift population models (gwpopulation/models/redshift.py).           *)
(*                                                                         *)
(* Numbers.  Every real value (a redshift, a density, an integral) is an   *)
(* exact rational [n, d] in lowest terms with d > 0.  An array is a record *)
(* [t |-> the array module that owns it, v |-> the sequence of values];    *)
(* only one-dimensional arrays are modelled, so a shape is a length.       *)
(***************************************************************************)
EXTENDS Integers, Sequences, FiniteSets, TLC

(* ------------------------------------------------------------------ *)
(* Bounds of the model                                                 *)
(* ------------------------------------------------------------------ *)
\* number of grid points (the source uses 1000)
GridN == 3
\* longest dataset redshift array
MaxLen == 2
\* largest power-law exponent (lamb) passed as a parameter
MaxLamb == 1

(* ------------------------------------------------------------------ *)
(* backend.py: module-level tables                                     *)
(* ------------------------------------------------------------------ *)
AllWithXp ==
    << "hyperpe", "models.interped", "models.mass", "models.redshift",
       "models.spin", "utils", "vt" >>

AllWithScs == << "models.mass", "utils" >>

SUPPORTED_BACKENDS == << "numpy", "cupy", "jax" >>

Supported == { SUPPORTED_BACKENDS[i] : i \in 1..Len(SUPPORTED_BACKENDS) }

NpModule(b) ==
    CASE b = "numpy" -> "numpy"
      [] b = "cupy"  -> "cupy"
      [] b = "jax"   -> "jax.numpy"

ScipyModule(b) ==
    CASE b = "numpy" -> "scipy"
      [] b = "cupy"  -> "cupyx.scipy"
      [] b = "jax"   -> "jax.scipy"

XpModules  == { AllWithXp[i] : i \in 1..Len(AllWithXp) }
ScsModules == { AllWithScs[i] : i \in 1..Len(AllWithScs) }

\* position of a module in the rebinding loop over __all_with_xp
XpPos(m) == CHOOSE i \in 1..Len(AllWithXp) : AllWithXp[i] = m

VARIABLES
    backend,     \* backend.__backend__
    xp,          \* module name -> the array module bound to its global xp
    scs,         \* module name -> the special-function module bound to its scs
    loaded,      \* gwpopulation submodules already imported (sys.modules)
    x64,         \* jax.config "jax_enable_x64"
    trapzAlias,  \* jax.numpy.trapz has been set to jax.scipy.integrate.trapezoid
    call,        \* the last set_backend call: its argument, error and steps
    log,         \* the last call of a public function of backend.py: its events
    inst,        \* the redshift model instance
    ret,         \* the last call on inst (normalisation or probability)
    p1,          \* the call on inst before ret, when the history keeps it
    p2,          \* the call on inst before p1, when the history keeps it
    sb,          \* thread -> its position in a concurrent set_backend call
    sbOverlap,   \* some thread stepped in set_backend while the other was inside
    pr,          \* thread -> its position in a concurrent probability call
    other,       \* a second model instance
    writer       \* instance -> the thread whose call last stored its cache slot

regvars  == << backend, xp, scs, loaded, x64, trapzAlias, call, log >>
instvars == << inst, ret, p1, p2 >>
sbvars   == << sb, sbOverlap >>
prvars   == << pr, other, writer >>
thrvars  == << sb, sbOverlap, pr, other, writer >>
vars     == << backend, xp, scs, loaded, x64, trapzAlias, call, log,
              inst, ret, p1, p2, sb, sbOverlap, pr, other, writer >>

(* ------------------------------------------------------------------ *)
(* backend.py: set_backend                                             *)
(* ------------------------------------------------------------------ *)
\* outcomes of an import statement
Status == { "ok", "missing", "broken" }

\* names a caller may pass: the supported ones, the empty string (the initial
\* value of __backend__) and a name of no backend
Names == Supported \cup { "", "torch" }

NoError == [ kind |-> "none", msg |-> "", name |-> "", choices |-> << >> ]

\* line 40: ValueError(f"Backend {backend} not supported, should be in ...")
NotSupported(name) ==
    [ kind |-> "ValueError", msg |-> "not supported, should be in",
      name |-> name, choices |-> SUPPORTED_BACKENDS ]

\* lines 56-59: the two errors raised from the try block
ImportFailure(name, status) ==
    IF status = "missing"
    THEN [ kind |-> "ModuleNotFoundError", msg |-> "not installed",
           name |-> name, choices |-> << >> ]
    ELSE [ kind |-> "ImportError", msg |-> "installed but not importable",
           name |-> name, choices |-> << >> ]

\* an import outside any try block fails with the interpreter's own error
RawImportFailure(what, status) ==
    IF status = "missing"
    THEN [ kind |-> "ModuleNotFoundError", msg |-> "No module named",
           name |-> what, choices |-> << >> ]
    ELSE [ kind |-> "ImportError", msg |-> "raised by the import",
           name |-> what, choices |-> << >> ]

\* Guard with the two tests in the other order
Guard_ActiveFirst(name) ==
    IF name = backend THEN "return"
    ELSE IF name \notin Supported THEN "raise"
    ELSE "switch"

\* Guard without the early return for the active backend
Guard_NoReturn(name) ==
    IF name \notin Supported THEN "raise" ELSE "switch"

\* lines 39-44: what the head of set_backend decides
Guard(name) ==
    IF name \notin Supported THEN "raise"
    ELSE IF name = backend THEN "return"
    ELSE "switch"

\* lines 67-69: the xp bindings after the loop ran up to (not including)
\* position stop; stop = 0 when no import in the loop fails
ReboundXp(name, stop) ==
    [ m \in XpModules |->
        IF stop = 0 \/ XpPos(m) < stop THEN NpModule(name) ELSE xp[m] ]

\* BackendAfterLoop clearing the record when the loop fails
BackendAfterLoop_Cleared(name, stop) == IF stop = 0 THEN name ELSE ""

\* lines 67-68: __backend__ is assigned inside the loop body, before the
\* import of the first module
BackendAfterLoop(name, stop) == name

\* lines 70-71: the scs bindings; reached only when the xp loop completed
ReboundScs(name) == [ m \in ScsModules |-> ScipyModule(name) ]

LoadedAfterLoop(stop) ==
    loaded \cup { m \in XpModules : stop = 0 \/ XpPos(m) < stop }

BindSteps(stop) ==
    LET n == IF stop = 0 THEN Len(AllWithXp) ELSE stop - 1
    IN  [ i \in 1..n |-> << "xp", AllWithXp[i] >> ]
        \o (IF stop = 0
            THEN [ i \in 1..Len(AllWithScs) |-> << "scs", AllWithScs[i] >> ]
            ELSE << >>)

\* set_backend without lines 46-49
ConfigSteps_None(name) == << >>

\* lines 46-49
ConfigSteps(name) ==
    IF name = "jax" THEN << << "config", "jax_enable_x64" >> >> ELSE << >>

\* lines 54-55
ImportSteps(name) ==
    << << "import", NpModule(name) >>, << "import", ScipyModule(name) >> >>

\* lines 60-66
AliasSteps(name, hasTrapezoid) ==
    IF name = "jax" /\ hasTrapezoid THEN << << "alias", "trapz" >> >> ELSE << >>

\* the state of the engine a call meets: the outcome of line 47 for jax when
\* that import fails, else the outcome of lines 54-55
Engine(name, cfg, imp) == IF name = "jax" /\ cfg # "ok" THEN cfg ELSE imp

\* the record of a call that stopped before the import work
Stopped(name, err) ==
    [ made |-> TRUE, name |-> name, engine |-> "-", err |-> err, steps |-> << >> ]

(* set_backend(backend=name).  cfg is the outcome of "from jax import     *)
(* config" (line 47), imp the outcome of the two import_module calls of    *)
(* lines 54-55, hasTrapezoid whether jax.scipy.integrate has trapezoid,    *)
(* stop the position in __all_with_xp of a dependent module whose import   *)
(* fails (0: none; a module already imported cannot fail).                 *)
set_backend(name, cfg, imp, hasTrapezoid, stop) ==
    /\ IF stop = 0 THEN TRUE ELSE AllWithXp[stop] \notin loaded
    /\ UNCHANGED instvars
    /\ CASE Guard(name) = "raise" ->
              /\ call' = Stopped(name, NotSupported(name))
              /\ UNCHANGED << backend, xp, scs, loaded, x64, trapzAlias >>
         [] Guard(name) = "return" ->
              /\ call' = Stopped(name, NoError)
              /\ UNCHANGED << backend, xp, scs, loaded, x64, trapzAlias >>
         [] Guard(name) = "switch" /\ name = "jax" /\ cfg # "ok" ->
              /\ call' = [ made |-> TRUE, name |-> name,
                           engine |-> Engine(name, cfg, imp),
                           err |-> RawImportFailure("jax", cfg),
                           steps |-> << >> ]
              /\ UNCHANGED << backend, xp, scs, loaded, x64, trapzAlias >>
         [] Guard(name) = "switch" /\ (name = "jax" => cfg = "ok") /\ imp # "ok" ->
              /\ call' = [ made |-> TRUE, name |-> name,
                           engine |-> Engine(name, cfg, imp),
                           err |-> ImportFailure(name, imp),
                           steps |-> ConfigSteps(name) ]
              /\ x64' = (x64 \/ name = "jax")
              /\ UNCHANGED << backend, xp, scs, loaded, trapzAlias >>
         [] Guard(name) = "switch" /\ (name = "jax" => cfg = "ok") /\ imp = "ok" ->
              /\ x64' = (x64 \/ name = "jax")
              /\ trapzAlias' = (trapzAlias \/ (name = "jax" /\ hasTrapezoid))
              /\ backend' = BackendAfterLoop(name, stop)
              /\ xp' = ReboundXp(name, stop)
              /\ scs' = IF stop = 0 THEN ReboundScs(name) ELSE scs
              /\ loaded' = LoadedAfterLoop(stop)
              /\ call' = [ made |-> TRUE, name |-> name,
                           engine |-> Engine(name, cfg, imp),
                           err |-> IF stop = 0 THEN NoError
                                   ELSE RawImportFailure(AllWithXp[stop], "broken"),
                           steps |-> ConfigSteps(name) \o ImportSteps(name)
                                     \o AliasSteps(name, hasTrapezoid)
                                     \o BindSteps(stop) ]

(* ------------------------------------------------------------------ *)
(* backend.py: the deprecated wrappers                                 *)
(* ------------------------------------------------------------------ *)
NoLog == [ fn |-> "none", events |-> << >> ]

\* a call of set_backend made by the caller
Direct(name) == [ fn |-> "set_backend", events |-> << << "set_backend", name >> >> ]

\* lines 20-23 and 30-33: both wrappers pass the same text to warn
DeprecationText ==
    "Function enable_cupy is deprecated, use set_backed('cupy') instead"

\* the events of a wrapper: the warning, then the call of set_backend
Delegated(fn, name) ==
    [ fn |-> fn,
      events |-> << << "warn", "DeprecationWarning", DeprecationText >>,
                    << "set_backend", name >> >> ]

\* line 24
DisableTarget == "numpy"

\* EnableTarget delegating to the backend disable_cupy selects
EnableTarget_Numpy == "numpy"

\* line 34
EnableTarget == "cupy"

\* lines 17-24
disable_cupy(imp, stop) ==
    /\ log' = Delegated("disable_cupy", DisableTarget)
    /\ set_backend(DisableTarget, "ok", imp, TRUE, stop)

\* lines 27-34
enable_cupy(imp, stop) ==
    /\ log' = Delegated("enable_cupy", EnableTarget)
    /\ set_backend(EnableTarget, "ok", imp, TRUE, stop)

(* ------------------------------------------------------------------ *)
(* Exact rational arithmetic                                           *)
(* ------------------------------------------------------------------ *)
\* Arithmetic is written as functions so that an argument is evaluated once.
Rats == [ n : Int, d : Int ]

Gcd[a \in Nat, b \in Nat] == IF b = 0 THEN a ELSE Gcd[b, a % b]

Abs(a) == IF a < 0 THEN -a ELSE a

RatOf[n \in Int, d \in Int] ==
    LET g == Gcd[Abs(n), Abs(d)]
        s == IF d < 0 THEN -1 ELSE 1
    IN  [ n |-> s * (n \div g), d |-> s * (d \div g) ]

\* common factors are divided out before the products are formed
RatAdd[a \in Rats, b \in Rats] ==
    LET g == Gcd[a.d, b.d]
    IN  RatOf[a.n * (b.d \div g) + b.n * (a.d \div g), (a.d \div g) * b.d]
RatSub[a \in Rats, b \in Rats] == RatAdd[a, [ n |-> -b.n, d |-> b.d ]]
RatMul[a \in Rats, b \in Rats] ==
    IF a.n = 0 \/ b.n = 0 THEN RatOf[0, 1]
    ELSE LET g == Gcd[Abs(a.n), b.d]
             h == Gcd[Abs(b.n), a.d]
         IN  RatOf[(a.n \div g) * (b.n \div h), (a.d \div h) * (b.d \div g)]
RatDiv[a \in Rats, b \in Rats] ==
    RatMul[a, IF b.n < 0 THEN [ n |-> -b.d, d |-> -b.n ] ELSE [ n |-> b.d, d |-> b.n ]]
RatPow[a \in Rats, k \in Nat] == IF k = 0 THEN RatOf[1, 1] ELSE RatMul[a, RatPow[a, k - 1]]

Rat(n, d)  == RatOf[n, d]
RAdd(a, b) == RatAdd[a, b]
RSub(a, b) == RatSub[a, b]
RMul(a, b) == RatMul[a, b]
RDiv(a, b) == RatDiv[a, b]
RPow(a, k) == RatPow[a, k]
RLeq(a, b) == a.n * b.d <= b.n * a.d

\* F applied to the value of e
Eval(F(_), e) == CHOOSE r \in { F(x) : x \in { e } } : TRUE

(* ------------------------------------------------------------------ *)
(* Consumed numeric helpers                                            *)
(* ------------------------------------------------------------------ *)
\* utils.powerlaw(xx, alpha, high, low): (xx / low)^alpha on [low, high],
\* zero outside
powerlaw(xx, alpha, high, low) ==
    IF RLeq(low, xx) /\ RLeq(xx, high) THEN RPow(RDiv(xx, low), alpha)
    ELSE Rat(0, 1)

\* cupy_utils.trapz(y, x): the trapezoidal rule
RECURSIVE TrapzFrom(_, _, _)
TrapzFrom(y, x, i) ==
    IF i >= Len(x) THEN Rat(0, 1)
    ELSE RAdd(RMul(RMul(RSub(x[i + 1], x[i]), RAdd(y[i], y[i + 1])), Rat(1, 2)),
              TrapzFrom(y, x, i + 1))

trapz(y, x) == TrapzFrom(y, x, 1)

\* cupy_utils.to_numpy(array): the same values as a numpy array
to_numpy(a) == [ t |-> "numpy", v |-> a.v ]

\* np.linspace(lo, hi, n)
linspace(lo, hi, n) ==
    [ i \in 1..n |-> RAdd(lo, RMul(Rat(i - 1, n - 1), RSub(hi, lo))) ]

\* np.interp(x, xs, fs) for one query point: linear between the grid points,
\* the end values outside the grid
interp1(x, xs, fs) ==
    IF RLeq(x, xs[1]) THEN fs[1]
    ELSE IF RLeq(xs[Len(xs)], x) THEN fs[Len(fs)]
    ELSE LET i == CHOOSE j \in 1..(Len(xs) - 1) :
                      RLeq(xs[j], x) /\ ~RLeq(xs[j + 1], x)
         IN  RAdd(fs[i],
                  RMul(RSub(fs[i + 1], fs[i]),
                       RDiv(RSub(x, xs[i]), RSub(xs[i + 1], xs[i]))))

interp(q, xs, fs) == [ i \in 1..Len(q) |-> interp1(q[i], xs, fs) ]

\* 4 * np.pi, rounded
FourPi == 13

\* Planck15.differential_comoving_volume(z).value: grows like z^2
differential_comoving_volume(z) == RMul(z, z)

(* ------------------------------------------------------------------ *)
(* models/redshift.py: _Redshift                                       *)
(* ------------------------------------------------------------------ *)
\* the first grid point, 1e-3, at the resolution of the model
ZLo == 0

\* the default of the z_max argument
DefaultZMax == 1

None == [ t |-> "None", v |-> << >> ]

\* xp.asarray(values), with the xp bound in models.redshift when it runs
asarray(values) == [ t |-> xp["models.redshift"], v |-> values ]

\* __init__ storing the volume term on the grid in the cache slot
NewInstance_Prefilled(cls, z_max) ==
    LET zs_     == linspace(Rat(ZLo, 1), z_max, GridN)
        dvc_dz_ == [ i \in 1..GridN |->
                       RMul(differential_comoving_volume(zs_[i]), Rat(FourPi, 1)) ]
    IN  [ cls           |-> cls,
          z_max         |-> z_max,
          zs_           |-> [ t |-> "numpy", v |-> zs_ ],
          zs            |-> asarray(zs_),
          dvc_dz_       |-> [ t |-> "numpy", v |-> dvc_dz_ ],
          dvc_dz        |-> asarray(dvc_dz_),
          cached_dvc_dz |-> asarray(dvc_dz_) ]

\* lines 14-20
NewInstance(cls, z_max) ==
    LET zs_     == linspace(Rat(ZLo, 1), z_max, GridN)
        dvc_dz_ == [ i \in 1..GridN |->
                       RMul(differential_comoving_volume(zs_[i]), Rat(FourPi, 1)) ]
    IN  [ cls           |-> cls,
          z_max         |-> z_max,
          zs_           |-> [ t |-> "numpy", v |-> zs_ ],
          zs            |-> asarray(zs_),
          dvc_dz_       |-> [ t |-> "numpy", v |-> dvc_dz_ ],
          dvc_dz        |-> asarray(dvc_dz_),
          cached_dvc_dz |-> None ]

OnePlus(z) == RAdd(Rat(1, 1), z)

\* what a call that raised yields in place of an array
Raise(kind) == [ t |-> kind, v |-> << >> ]

Errors == { "NotImplementedError", "TypeError", "ValueError" }

IsRaise(a) == a.t \in Errors

\* _Redshift.psi_of_z with a default body returning ones
Base_psi_of_z_Ones(self, redshift, parameters) ==
    [ t |-> redshift.t, v |-> [ i \in 1..Len(redshift.v) |-> Rat(1, 1) ] ]

\* lines 46-47: _Redshift.psi_of_z
Base_psi_of_z(self, redshift, parameters) == Raise("NotImplementedError")

\* lines 63-66: PowerLawRedshift.psi_of_z, elementwise on an array
PowerLaw_psi_of_z(self, redshift, parameters) ==
    [ t |-> redshift.t,
      v |-> [ i \in 1..Len(redshift.v) |->
                powerlaw(OnePlus(redshift.v[i]), parameters.lamb,
                         OnePlus(self.z_max), Rat(1, 1)) ] ]

\* line 100 with the exponent off by one
MadauDenominator_NextPower(z, kappa, z_peak) ==
    RAdd(Rat(1, 1), RPow(RDiv(OnePlus(z), OnePlus(z_peak)), kappa + 1))

\* line 100: 1 + ((1 + redshift) / (1 + z_peak)) ** kappa
MadauDenominator(z, kappa, z_peak) ==
    RAdd(Rat(1, 1), RPow(RDiv(OnePlus(z), OnePlus(z_peak)), kappa))

\* lines 95-101: MadauDickinsonRedshift.psi_of_z
MadauDickinson_psi_of_z(self, redshift, parameters) ==
    [ t |-> redshift.t,
      v |-> [ i \in 1..Len(redshift.v) |->
                RDiv(powerlaw(OnePlus(redshift.v[i]), parameters.gamma,
                              OnePlus(self.z_max), Rat(1, 1)),
                     MadauDenominator(redshift.v[i], parameters.kappa,
                                      parameters.z_peak)) ] ]

\* self.psi_of_z(redshift=..., **parameters): the method of the instance's class
psi_of_z(self, redshift, parameters) ==
    CASE self.cls = "PowerLawRedshift" -> PowerLaw_psi_of_z(self, redshift, parameters)
      [] self.cls = "MadauDickinsonRedshift" ->
             MadauDickinson_psi_of_z(self, redshift, parameters)
      [] self.cls = "_Redshift" -> Base_psi_of_z(self, redshift, parameters)

\* lines 30-33, when psi_of_z returns
Normalisation(self, parameters) ==
    LET psi == psi_of_z(self, self.zs, parameters)
        y   == [ i \in 1..Len(self.zs.v) |->
                   RDiv(RMul(psi.v[i], self.dvc_dz.v[i]), OnePlus(self.zs.v[i])) ]
    IN  trapz(y, self.zs.v)

\* _cache_dvc_dz storing the volume term on the grid, not at the redshifts
CacheDvcDz_Grid(self, redshifts) == asarray(self.dvc_dz_.v)

\* lines 25-28: the value _cache_dvc_dz stores in self.cached_dvc_dz
CacheDvcDz(self, redshifts) ==
    asarray(interp(to_numpy(redshifts).v, self.zs_.v, self.dvc_dz_.v) \o << >>)

\* the store of line 26 landing on the volume term as well
StoreCache_OverVolume(self, c) == [ self EXCEPT !.cached_dvc_dz = c, !.dvc_dz = c ]

\* line 26: self.cached_dvc_dz = ...; the instance afterwards
StoreCache(self, c) == [ self EXCEPT !.cached_dvc_dz = c ]

\* numpy and cupy arrays are updated in place by "*="; a jax array is
\* immutable, so "p_z *= c" rebinds p_z to the broadcast product p_z * c
InPlace(t) == t \in { "numpy", "cupy" }

\* the array modules whose arrays can be operands of one multiplication
SameEngine(t, c) == t = c \/ { t, c } = { "numpy", "jax.numpy" }

\* line 40: whether "p_z *= self.cached_dvc_dz" succeeds; it raises TypeError
\* for None or a foreign array, ValueError (TypeError under jax) for shapes
\* that do not broadcast
CanMultiply(p, c) ==
    /\ c.t # "None"
    /\ SameEngine(p.t, c.t)
    /\ \/ Len(c.v) = Len(p.v)
       \/ Len(c.v) = 1
       \/ ~InPlace(p.t) /\ Len(p.v) = 1

\* lines 40, 43: the exception "p_z *= c" raises, "none" when it succeeds
MultiplyError(p, c) ==
    IF CanMultiply(p, c) THEN "none"
    ELSE IF c.t = "None" \/ ~SameEngine(p.t, c.t) \/ ~InPlace(p.t) THEN "TypeError"
    ELSE "ValueError"

\* lines 40, 43: the value of p_z after "p_z *= c"
Multiply(p, c) ==
    LET n == IF InPlace(p.t) \/ Len(c.v) <= Len(p.v) THEN Len(p.v) ELSE Len(c.v)
    IN  [ t |-> p.t,
          v |-> [ i \in 1..n |->
                    RMul(p.v[IF Len(p.v) = 1 THEN 1 ELSE i],
                         c.v[IF Len(c.v) = 1 THEN 1 ELSE i]) ] ]

\* CacheHit for a try block that always falls through to the except branch
CacheHit_Never(p, c) == FALSE

\* lines 39-41: the cached array is reused when the multiplication succeeds
CacheHit(p, c) == CanMultiply(p, c)

\* line 38: psi_of_z / (1 + dataset["redshift"]) / normalisation
Density(psi, dataset, norm) ==
    [ t |-> dataset.t,
      v |-> [ i \in 1..Len(dataset.v) |->
                RDiv(RDiv(psi.v[i], OnePlus(dataset.v[i])), norm) ] \o << >> ]

\* lines 39-44: the try block, given p_z of line 38
TryCache(self, dataset, p_z) ==
    Eval(LAMBDA cache :
             [ res |-> IF CanMultiply(p_z, cache) THEN Multiply(p_z, cache)
                       ELSE Raise(MultiplyError(p_z, cache)),
               cache |-> cache,
               hit |-> CacheHit(p_z, self.cached_dvc_dz) ],
         IF CacheHit(p_z, self.cached_dvc_dz) THEN self.cached_dvc_dz
         ELSE CacheDvcDz(self, dataset))

\* lines 35-44: the returned array, the cache slot afterwards and whether the
\* slot was reused
Probability(self, dataset, parameters) ==
    IF IsRaise(psi_of_z(self, dataset, parameters))
    THEN [ res |-> psi_of_z(self, dataset, parameters),
           cache |-> self.cached_dvc_dz, hit |-> FALSE ]
    ELSE Eval(LAMBDA p_z : TryCache(self, dataset, p_z),
              Eval(LAMBDA norm :
                       Density(psi_of_z(self, dataset, parameters), dataset, norm),
                   Normalisation(self, parameters)))

(* ------------------------------------------------------------------ *)
(* Calls on the instance                                               *)
(* ------------------------------------------------------------------ *)
\* the state of the registry a call on the instance runs under
Active ==
    [ backend |-> backend, xp |-> xp["models.redshift"],
      agreed  |-> \A m \in XpModules : xp[m] = xp["models.redshift"] ]

NoActive == [ backend |-> "", xp |-> "", agreed |-> FALSE ]

\* The record of a call: its arguments, the returned array, the exception it
\* raised (err, "none" when it returned), the volume term multiplied in,
\* whether the cache slot was reused (hit), whether the call repeats the
\* arguments of the call before it (rep), and which array modules own the
\* instance arrays it read (used).
NoCall ==
    [ op |-> "none", par |-> [ lamb |-> 0 ], ds |-> None, res |-> None,
      err |-> "none", vol |-> None, hit |-> FALSE, rep |-> FALSE, used |-> { },
      active |-> NoActive ]

\* the exception a call raised, given what it yields
ErrorOf(a) == IF IsRaise(a) THEN a.t ELSE "none"

\* cls(z_max): a new instance replaces the modelled one
Construct(cls, z_max) ==
    /\ inst' = NewInstance(cls, z_max)
    /\ ret' = NoCall /\ p1' = NoCall /\ p2' = NoCall
    /\ UNCHANGED regvars

\* the history after a call: depth is how many earlier calls it keeps
Shift(depth) ==
    /\ p1' = IF depth >= 1 THEN ret ELSE NoCall
    /\ p2' = IF depth >= 2 THEN p1 ELSE NoCall

\* inst.normalisation(parameters): the scalar it returns, or what it raises
NormalisationCall(self, parameters) ==
    IF IsRaise(psi_of_z(self, self.zs, parameters))
    THEN psi_of_z(self, self.zs, parameters)
    ELSE [ t |-> self.zs.t, v |-> << Normalisation(self, parameters) >> ]

normalisation(parameters, depth) ==
    /\ \E r \in { NormalisationCall(inst, parameters) } :
          ret' = [ op |-> "normalisation", par |-> parameters, ds |-> None,
                   res |-> r, err |-> ErrorOf(r),
                   vol |-> None, hit |-> FALSE, rep |-> FALSE,
                   used |-> IF IsRaise(r) THEN { inst.zs.t }
                            ELSE { inst.zs.t, inst.dvc_dz.t },
                   active |-> Active ]
    /\ Shift(depth)
    /\ UNCHANGED inst
    /\ UNCHANGED regvars

\* inst.probability(dataset, **parameters); the dataset's redshift array is
\* an array of the array module bound in models.redshift
probability(values, parameters, depth) ==
    \E dataset \in { asarray(values) } :
    \E r \in { Probability(inst, dataset, parameters) } :
        /\ inst' = StoreCache(inst, r.cache)
        /\ ret' = [ op |-> "probability", par |-> parameters, ds |-> dataset,
                    res |-> r.res, err |-> ErrorOf(r.res),
                    vol |-> r.cache, hit |-> r.hit,
                    rep |-> (ret.op = "probability" /\ ret.ds = dataset
                               /\ ret.par = parameters),
                    used |-> IF r.res.t = "NotImplementedError" THEN { }
                             ELSE { inst.zs.t, inst.dvc_dz.t, r.cache.t },
                    active |-> Active ]
        /\ Shift(depth)
        /\ UNCHANGED regvars

(* ------------------------------------------------------------------ *)
(* set_backend called from two threads                                 *)
(* ------------------------------------------------------------------ *)
\* Each thread runs lines 37-71 statement by statement; nothing orders the
\* statements of one thread against those of the other.  The engines are
\* installed and the dependent modules import, so no call raises.
Threads == { 1, 2 }

Other(t) == 3 - t

IdleThread == [ pc |-> "idle", name |-> "", i |-> 0 ]

\* a thread that has not called probability
IdleCaller ==
    [ pc |-> "idle", on |-> 0, ds |-> None, par |-> [ lamb |-> 0 ], p_z |-> None,
      res |-> None, err |-> "none", miss |-> FALSE, from |-> 0 ]

IdleThreads ==
    /\ sb = [ t \in Threads |-> IdleThread ]
    /\ sbOverlap = FALSE
    /\ pr = [ t \in Threads |-> IdleCaller ]
    /\ writer = [ i \in 1..2 |-> 0 ]

\* no second instance has been constructed
NoInstance == [ cls |-> "none" ]

\* one thread, one instance
NoThreads == IdleThreads /\ other = NoInstance

\* the thread is inside set_backend
Inside(t) == sb[t].pc \notin { "idle", "done" }

\* the thread moves on; the step overlaps the other thread's call when that
\* thread is inside set_backend
Goto(t, pc, i) ==
    /\ sb' = [ sb EXCEPT ![t] = [ @ EXCEPT !.pc = pc, !.i = i ] ]
    /\ sbOverlap' = (sbOverlap \/ Inside(Other(t)))

\* the loop over __all_with_xp leaving out its last module
LoopDone_Early(i) == i >= Len(AllWithXp)

\* line 67: the loop over __all_with_xp is exhausted
LoopDone(i) == i > Len(AllWithXp)

\* lines 37-44: the call and its test of __backend__
sb_guard(t, name) ==
    /\ sb[t].pc = "idle"
    /\ name \in Supported /\ name # sb[Other(t)].name
    /\ sb' = [ sb EXCEPT ![t] = [ pc |-> IF Guard(name) = "return" THEN "done"
                                         ELSE "import",
                                  name |-> name, i |-> 0 ] ]
    /\ sbOverlap' = (sbOverlap \/ Inside(Other(t)))
    /\ UNCHANGED << backend, xp, scs, loaded, x64, trapzAlias, call, log >>
    /\ UNCHANGED instvars
    /\ UNCHANGED prvars

\* lines 46-66: precision mode, the imports of the engine, the trapz alias
sb_import(t) ==
    /\ sb[t].pc = "import"
    /\ x64' = (x64 \/ sb[t].name = "jax")
    /\ trapzAlias' = (trapzAlias \/ sb[t].name = "jax")
    /\ Goto(t, "mark", 1)
    /\ UNCHANGED << backend, xp, scs, loaded, call, log >>
    /\ UNCHANGED instvars
    /\ UNCHANGED prvars

\* line 68: __backend__ = backend
sb_mark(t) ==
    /\ sb[t].pc = "mark"
    /\ backend' = sb[t].name
    /\ Goto(t, "bind", sb[t].i)
    /\ UNCHANGED << xp, scs, loaded, x64, trapzAlias, call, log >>
    /\ UNCHANGED instvars
    /\ UNCHANGED prvars

\* line 69: import_module(module).xp = xp, then the next iteration or the
\* loop of line 70
sb_bind(t) ==
    /\ sb[t].pc = "bind"
    /\ xp' = [ xp EXCEPT ![AllWithXp[sb[t].i]] = NpModule(sb[t].name) ]
    /\ IF LoopDone(sb[t].i + 1) THEN Goto(t, "scs", 1)
       ELSE Goto(t, "mark", sb[t].i + 1)
    /\ UNCHANGED << backend, scs, loaded, x64, trapzAlias, call, log >>
    /\ UNCHANGED instvars
    /\ UNCHANGED prvars

\* line 71: import_module(module).scs = scs
sb_scs(t) ==
    /\ sb[t].pc = "scs"
    /\ scs' = [ scs EXCEPT ![AllWithScs[sb[t].i]] = ScipyModule(sb[t].name) ]
    /\ IF sb[t].i + 1 > Len(AllWithScs) THEN Goto(t, "done", 0)
       ELSE Goto(t, "scs", sb[t].i + 1)
    /\ UNCHANGED << backend, xp, loaded, x64, trapzAlias, call, log >>
    /\ UNCHANGED instvars
    /\ UNCHANGED prvars

(* ------------------------------------------------------------------ *)
(* probability called from two threads                                 *)
(* ------------------------------------------------------------------ *)
\* Each thread runs lines 35-44; its accesses to self.cached_dvc_dz (the read
\* of line 40, the store of line 26, the read of line 43) are separate steps.
InstanceAt(i) == IF i = 1 THEN inst ELSE other

\* a cache slot kept on the class, shared by every instance
SelfOf_Shared(t) == 1

\* self of the thread's call: the instance it was called on
SelfOf(t) == pr[t].on

\* line 26: self.cached_dvc_dz = ...
StoreSlot(i, t, c) ==
    /\ IF i = 1
       THEN inst' = [ inst EXCEPT !.cached_dvc_dz = c ] /\ UNCHANGED other
       ELSE other' = [ other EXCEPT !.cached_dvc_dz = c ] /\ UNCHANGED inst
    /\ writer' = [ writer EXCEPT ![i] = t ]

\* lines 35-38: psi_of_z, normalisation and p_z, from the grid alone
pr_call(t, on, values, parameters) ==
    /\ pr[t].pc = "idle"
    /\ asarray(values) # pr[Other(t)].ds
    /\ \E p_z \in { Eval(LAMBDA norm :
                             Density(psi_of_z(InstanceAt(on), asarray(values), parameters),
                                     asarray(values), norm),
                         Normalisation(InstanceAt(on), parameters)) } :
          pr' = [ pr EXCEPT ![t] =
                    [ pc |-> "try", on |-> on, ds |-> asarray(values),
                      par |-> parameters, p_z |-> p_z, res |-> None,
                      err |-> "none", miss |-> FALSE, from |-> 0 ] ]
    /\ UNCHANGED << inst, other, writer, ret, p1, p2 >>
    /\ UNCHANGED regvars
    /\ UNCHANGED sbvars

\* lines 39-41: p_z *= self.cached_dvc_dz inside the try block
pr_try(t) ==
    /\ pr[t].pc = "try"
    /\ \E c \in { InstanceAt(SelfOf(t)).cached_dvc_dz } :
          pr' = [ pr EXCEPT ![t] =
                    IF CacheHit(pr[t].p_z, c)
                    THEN [ @ EXCEPT !.pc = "done", !.res = Multiply(pr[t].p_z, c),
                                    !.from = writer[SelfOf(t)] ]
                    ELSE [ @ EXCEPT !.pc = "cache", !.miss = TRUE ] ]
    /\ UNCHANGED << inst, other, writer, ret, p1, p2 >>
    /\ UNCHANGED regvars
    /\ UNCHANGED sbvars

\* line 42: self._cache_dvc_dz(dataset["redshift"])
pr_cache(t) ==
    /\ pr[t].pc = "cache"
    /\ StoreSlot(SelfOf(t), t, CacheDvcDz(InstanceAt(SelfOf(t)), pr[t].ds))
    /\ pr' = [ pr EXCEPT ![t].pc = "again" ]
    /\ UNCHANGED << ret, p1, p2 >>
    /\ UNCHANGED regvars
    /\ UNCHANGED sbvars

\* lines 43-44: p_z *= self.cached_dvc_dz in the except branch, and the return
pr_again(t) ==
    /\ pr[t].pc = "again"
    /\ \E c \in { InstanceAt(SelfOf(t)).cached_dvc_dz } :
          pr' = [ pr EXCEPT ![t] =
                    [ @ EXCEPT !.pc = "done",
                               !.res = IF CanMultiply(pr[t].p_z, c)
                                       THEN Multiply(pr[t].p_z, c)
                                       ELSE Raise(MultiplyError(pr[t].p_z, c)),
                               !.err = MultiplyError(pr[t].p_z, c),
                               !.from = writer[SelfOf(t)] ] ]
    /\ UNCHANGED << inst, other, writer, ret, p1, p2 >>
    /\ UNCHANGED regvars
    /\ UNCHANGED sbvars

(* ------------------------------------------------------------------ *)
(* Inputs                                                              *)
(* ------------------------------------------------------------------ *)
\* redshifts a dataset may hold: inside the default range, its upper end included
ZVals    == { Rat(1, 2), Rat(1, 1) }
Datasets == UNION { [ 1..n -> ZVals ] : n \in 1..MaxLen }
Params   == [ lamb : 0..MaxLamb ]
\* z_max of a constructed model: the default, and one that leaves a dataset
\* redshift outside the range
ZMaxes   == { Rat(DefaultZMax, 1), Rat(1, 2) }
Classes  == { "PowerLawRedshift" }

\* the three classes of redshift.py and the parameters their psi_of_z reads
AllClasses  == { "_Redshift", "PowerLawRedshift", "MadauDickinsonRedshift" }
ZPeaks      == { Rat(1, 1), Rat(3, 1) }
MadauParams == [ gamma : 0..MaxLamb, kappa : 0..MaxLamb, z_peak : ZPeaks ]
ParamsOf(cls) == IF cls = "MadauDickinsonRedshift" THEN MadauParams ELSE Params
\* datasets of both shapes, the upper end of the default range included
ModelDatasets == { << Rat(1, 1) >>, << Rat(1, 2), Rat(1, 1) >> }

OneDataset == { << Rat(1, 2) >> }
OneParam   == { [ lamb |-> 0 ] }

(* ------------------------------------------------------------------ *)
(* Specifications                                                      *)
(* ------------------------------------------------------------------ *)
\* the array module cupy_utils exports as xp when the package is imported
DefaultBackends == { "numpy", "cupy" }

NoCallYet ==
    [ made |-> FALSE, name |-> "", engine |-> "-", err |-> NoError, steps |-> << >> ]

\* The package has been imported: __backend__ is "" (line 11), every module
\* holds the xp it imported from cupy_utils, and the module-level instance
\* power_law_redshift (redshift.py line 104) exists.
Init ==
    /\ backend = ""
    /\ \E b \in DefaultBackends :
          /\ xp = [ m \in XpModules |-> NpModule(b) ]
          /\ scs = [ m \in ScsModules |-> ScipyModule(b) ]
          /\ inst = NewInstance("PowerLawRedshift", Rat(DefaultZMax, 1))
    /\ loaded \in { XpModules, { "models.redshift", "utils" } }
    /\ x64 = FALSE
    /\ trapzAlias = FALSE
    /\ call = NoCallYet
    /\ log = NoLog
    /\ ret = NoCall /\ p1 = NoCall /\ p2 = NoCall
    /\ NoThreads

\* set_backend with every input it consults; an input the call never reads
\* (cfg unless the name is jax, imp once line 47 failed, and so on) is fixed
SetBackendStep ==
    \E name \in Names :
    \E cfg \in IF name = "jax" THEN Status ELSE { "ok" } :
    \E imp \in IF name \in Supported /\ cfg = "ok" THEN Status ELSE { "ok" } :
    \E hasTrapezoid \in IF name = "jax" /\ imp = "ok" THEN BOOLEAN ELSE { TRUE } :
    \E stop \in IF name \in Supported /\ imp = "ok" THEN 0..Len(AllWithXp) ELSE { 0 } :
        /\ log' = Direct(name)
        /\ set_backend(name, cfg, imp, hasTrapezoid, stop)
        /\ UNCHANGED thrvars

\* a wrapper takes no argument; the engine and the dependent modules it meets
\* are those set_backend meets
DisableCupyStep ==
    \E imp \in Status :
    \E stop \in IF imp = "ok" THEN 0..Len(AllWithXp) ELSE { 0 } :
        disable_cupy(imp, stop) /\ UNCHANGED thrvars

EnableCupyStep ==
    \E imp \in Status :
    \E stop \in IF imp = "ok" THEN 0..Len(AllWithXp) ELSE { 0 } :
        enable_cupy(imp, stop) /\ UNCHANGED thrvars

ConstructStep(C, Z) ==
    \E cls \in C, z_max \in Z : Construct(cls, z_max) /\ UNCHANGED thrvars

NormalisationStep(P, depth) ==
    \E parameters \in P : normalisation(parameters, depth) /\ UNCHANGED thrvars

ProbabilityStep(D, P, depth) ==
    \E values \in D, parameters \in P :
        probability(values, parameters, depth) /\ UNCHANGED thrvars

\* the registry alone
NextBackend ==
    \/ SetBackendStep
    \/ DisableCupyStep
    \/ EnableCupyStep

SpecBackend == Init /\ [][NextBackend]_vars

\* The state after set_backend(b) returned without error on a fully imported
\* package and a model was constructed under b.
ModelReady ==
    /\ \E b \in Supported :
          /\ backend = b
          /\ xp = [ m \in XpModules |-> NpModule(b) ]
          /\ scs = [ m \in ScsModules |-> ScipyModule(b) ]
          /\ x64 = (b = "jax")
          /\ trapzAlias = (b = "jax")
          /\ call = [ made |-> TRUE, name |-> b, engine |-> "ok", err |-> NoError,
                      steps |-> ConfigSteps(b) \o ImportSteps(b)
                                \o AliasSteps(b, TRUE) \o BindSteps(0) ]
          /\ log = Direct(b)
          /\ inst = NewInstance("PowerLawRedshift", Rat(DefaultZMax, 1))
    /\ loaded = XpModules
    /\ ret = NoCall /\ p1 = NoCall /\ p2 = NoCall

InitRedshift == ModelReady /\ NoThreads

\* the same, with a second instance constructed and two threads about to call
InitRace ==
    /\ ModelReady
    /\ IdleThreads
    /\ other = NewInstance("PowerLawRedshift", Rat(DefaultZMax, 1))

\* one model instance under a fixed backend, the history keeping the last call
NextRedshift ==
    \/ ConstructStep(Classes, ZMaxes)
    \/ NormalisationStep(Params, 0)
    \/ ProbabilityStep(Datasets, Params, 0)

SpecRedshift == InitRedshift /\ [][NextRedshift]_vars

\* probability calls on one instance under one parameter set, the history
\* keeping the last three
NextCache == ProbabilityStep(Datasets, OneParam, 2)

SpecCache == InitRedshift /\ [][NextCache]_vars

\* probability calls of both shapes on one instance, the history keeping the
\* last two
NextRecompute ==
    \/ ConstructStep(Classes, ZMaxes)
    \/ ProbabilityStep(ModelDatasets, Params, 1)

SpecRecompute == InitRedshift /\ [][NextRecompute]_vars

\* two threads, each calling set_backend once, with different names
NextThreads ==
    \E t \in Threads :
        \/ \E name \in Supported : sb_guard(t, name)
        \/ sb_import(t)
        \/ sb_mark(t)
        \/ sb_bind(t)
        \/ sb_scs(t)

SpecThreads == Init /\ [][NextThreads]_vars

\* two threads, each calling probability once, on one instance or on two,
\* with different datasets
NextRace ==
    \E t \in Threads :
        \/ \E on \in 1..2, values \in ModelDatasets, parameters \in OneParam :
               pr_call(t, on, values, parameters)
        \/ pr_try(t)
        \/ pr_cache(t)
        \/ pr_again(t)

SpecRace == InitRace /\ [][NextRace]_vars

\* instances of the three classes under a fixed backend
NextModels ==
    \/ ConstructStep(AllClasses, ZMaxes)
    \/ NormalisationStep(ParamsOf(inst.cls), 0)
    \/ ProbabilityStep(ModelDatasets, ParamsOf(inst.cls), 0)

SpecModels == InitRedshift /\ [][NextModels]_vars

\* the registry and the instance together, on one dataset
Next ==
    \/ SetBackendStep
    \/ ConstructStep(Classes, { Rat(DefaultZMax, 1) })
    \/ NormalisationStep(OneParam, 0)
    \/ ProbabilityStep(OneDataset, OneParam, 0)

Spec == Init /\ [][Next]_vars

(* ------------------------------------------------------------------ *)
(* Claims about the backend registry                                   *)
(* ------------------------------------------------------------------ *)
registry == << backend, xp, scs, loaded, x64, trapzAlias >>

\* a set_backend call that changed anything, its own record included
SetBackendTaken == regvars' # regvars

\* C5: set_backend with a name outside the supported set fails with the
\* "not supported" ValueError that lists the supported set, does no import,
\* precision or rebinding step, and leaves the recorded backend and every
\* binding as they were, in every registry state.
C5_UnsupportedRejected ==
    [][ (SetBackendTaken /\ call'.name \notin Supported) =>
          /\ call'.err = [ kind |-> "ValueError", msg |-> "not supported, should be in",
                           name |-> call'.name, choices |-> << "numpy", "cupy", "jax" >> ]
          /\ call'.steps = << >>
          /\ registry' = registry ]_vars

C5_Witness ==
    /\ call.made /\ call.name = "torch" /\ call.err.kind = "ValueError"
    /\ backend = "cupy"

\* C6: after set_backend(name) returns without error the recorded backend is
\* name, all seven xp bindings are name's array module and both scs bindings
\* are name's special-function module.
C6_SuccessBindsAll ==
    (call.made /\ call.err = NoError) =>
        /\ backend = call.name
        /\ \A m \in XpModules : xp[m] = NpModule(call.name)
        /\ \A m \in ScsModules : scs[m] = ScipyModule(call.name)

\* C8: set_backend with the already-active backend does no import, no
\* precision configuration and no rebinding and leaves the registry as it
\* was; hence a second set_backend(b) after one that returned without error
\* changes nothing.
C8_ActiveIsNoOp ==
    [][ /\ (SetBackendTaken /\ backend \in Supported /\ call'.name = backend) =>
             /\ call'.steps = << >>
             /\ call'.err = NoError
             /\ registry' = registry
        /\ (SetBackendTaken /\ call.made /\ call.err = NoError
              /\ call'.name = call.name /\ call.steps # << >>) =>
             /\ call'.steps = << >>
             /\ registry' = registry ]_vars

C8_Witness ==
    /\ call.made /\ call.name = backend /\ call.steps = << >>
    /\ call.err = NoError /\ backend = "jax"

\* C9: for every supported name, a missing engine gives ModuleNotFoundError
\* "<name> not installed" and a broken one ImportError "<name> installed but
\* not importable".
C9_ImportErrorsDistinguished ==
    /\ (call.made /\ call.engine = "missing") =>
          call.err = [ kind |-> "ModuleNotFoundError", msg |-> "not installed",
                       name |-> call.name, choices |-> << >> ]
    /\ (call.made /\ call.engine = "broken") =>
          call.err = [ kind |-> "ImportError", msg |-> "installed but not importable",
                       name |-> call.name, choices |-> << >> ]

\* C10 as stated: in every reachable state exactly one supported backend is
\* the recorded active backend.
C10_AlwaysOneSupported == backend \in Supported

\* C10 amended: the recorded active backend is the empty string or one
\* supported backend; while it stays empty no binding changes; once it is a
\* supported backend it remains one, whatever later calls fail.
C10_EmptyThenOneSupported ==
    /\ [](backend \in Supported \cup { "" })
    /\ [][ /\ backend' = "" => (xp' = xp /\ scs' = scs)
           /\ backend \in Supported => backend' \in Supported ]_vars

C10_Witness ==
    /\ call.made /\ call.err.kind = "ImportError" /\ call.steps # << >>
    /\ backend \in Supported /\ backend # call.name

\* C11: enable_cupy() and disable_cupy() emit the deprecation warning first
\* and then call set_backend with 'cupy' and 'numpy': from every registry
\* state the step is a step of set_backend('cupy') / set_backend('numpy')
\* (same resulting registry, same error), also when that call fails.
C11_WrappersDelegate ==
    [][ /\ (regvars' # regvars /\ log'.fn = "enable_cupy") =>
             /\ Len(log'.events) = 2
             /\ log'.events[1][1] = "warn"
             /\ log'.events[1][2] = "DeprecationWarning"
             /\ log'.events[2] = << "set_backend", "cupy" >>
             /\ \E imp \in Status, stop \in 0..Len(AllWithXp) :
                    set_backend("cupy", "ok", imp, TRUE, stop)
        /\ (regvars' # regvars /\ log'.fn = "disable_cupy") =>
             /\ Len(log'.events) = 2
             /\ log'.events[1][1] = "warn"
             /\ log'.events[1][2] = "DeprecationWarning"
             /\ log'.events[2] = << "set_backend", "numpy" >>
             /\ \E imp \in Status, stop \in 0..Len(AllWithXp) :
                    set_backend("numpy", "ok", imp, TRUE, stop) ]_vars

C11_Witness ==
    /\ log.fn = "enable_cupy" /\ log.events[1][1] = "warn"
    /\ call.name = "cupy" /\ call.err.kind = "ModuleNotFoundError"
    /\ backend = "numpy"

\* C16: a set_backend('jax') call that goes on to switch enables the 64-bit
\* mode as its first step, before the import of jax.numpy, before the trapz
\* alias and before any module is rebound; so no module is ever bound to
\* jax.numpy with the 64-bit mode off.
C16_PrecisionFirst ==
    /\ (call.made /\ call.name = "jax" /\ call.steps # << >>) =>
          /\ call.steps[1] = << "config", "jax_enable_x64" >>
          /\ \A i \in 2..Len(call.steps) :
                call.steps[i][1] \in { "import", "alias", "xp", "scs" }
          /\ x64
    /\ (\E m \in XpModules : xp[m] = "jax.numpy") => x64

C16_Witness ==
    /\ call.made /\ call.name = "jax" /\ call.err = NoError
    /\ Len(call.steps) = 13
    /\ call.steps[2] = << "import", "jax.numpy" >>
    /\ call.steps[4] = << "alias", "trapz" >>
    /\ \A m \in XpModules : xp[m] = "jax.numpy"

\* C20: a set_backend call that passed the name check and then raised (engine
\* missing, engine broken, or a dependent module failing to import in the
\* rebinding loop) leaves the recorded backend and every xp / scs binding as
\* before the call, so that the same call made again is not a no-op.
C20_FailureRestores ==
    [][ (SetBackendTaken /\ call'.name \in Supported /\ call'.err # NoError) =>
          /\ backend' = backend
          /\ xp' = xp
          /\ scs' = scs
          /\ backend' # call'.name ]_vars

(* ------------------------------------------------------------------ *)
(* Claims about the redshift model                                     *)
(* ------------------------------------------------------------------ *)
\* the volume term at exactly the redshifts of a dataset
VolumeAt(dataset) == interp(dataset.v, inst.zs_.v, inst.dvc_dz_.v) \o << >>

\* C1: probability with dataset A, then with B of another shape, then with A
\* and the first call's parameters again returns what the first call
\* returned.
C1_ThirdEqualsFirst ==
    ( /\ ret.op = "probability" /\ p1.op = "probability" /\ p2.op = "probability"
      /\ ret.ds = p2.ds /\ ret.par = p2.par
      /\ Len(p1.ds.v) # Len(ret.ds.v) )
    => ret.res = p2.res

\* C2: the volume term multiplied into the result of a probability call is
\* the one interpolated at that call's dataset redshifts.
C2_VolumeOfThisDataset ==
    ret.op = "probability" => ret.vol.v = VolumeAt(ret.ds)

\* C3: a probability call that repeats the dataset and parameters of the
\* probability call just before it reuses the cache slot, returns the same
\* array and leaves the cache slot as the first call left it.
C3_RepeatIsIdentical ==
    [][ (ret'.op = "probability" /\ ret'.rep /\ ret' # ret) =>
          /\ ret'.res = ret.res
          /\ ret'.hit
          /\ ret'.vol = ret.vol
          /\ inst'.cached_dvc_dz = inst.cached_dvc_dz ]_vars

C3_Witness ==
    /\ ret.op = "probability" /\ ret.rep /\ ret.hit
    /\ Len(ret.ds.v) = 2 /\ ret.ds.v[1] # ret.ds.v[2]
    /\ ret.vol.v = VolumeAt(ret.ds)
    /\ ret.par.lamb = 1

\* C4: a probability call returns an array of the shape of the dataset's
\* redshift array, whatever the cache slot held and whichever backend is
\* active.
C4_ResultHasDatasetShape ==
    ret.op = "probability" => Len(ret.res.v) = Len(ret.ds.v)

\* C7: an evaluation made after set_backend(name) succeeded reads only
\* arrays of name's array module and returns an array of that module.
C7_ArraysOfActiveBackend ==
    ( /\ ret.op # "none"
      /\ ret.active.backend \in Supported
      /\ ret.active.agreed
      /\ ret.active.xp = NpModule(ret.active.backend) )
    => /\ \A t \in ret.used : t = ret.active.xp
       /\ ret.res.t = ret.active.xp

\* C12: normalisation and probability on an instance of the base class, whose
\* psi_of_z is not implemented, raise NotImplementedError and leave the
\* instance (cache slot, grid, volume term) as it was.
C12_AbstractRaises ==
    [][ (inst.cls = "_Redshift" /\ ret' # ret /\ ret'.op # "none") =>
          /\ ret'.err = "NotImplementedError"
          /\ inst' = inst ]_vars

C12_Witness ==
    /\ inst.cls = "_Redshift" /\ ret.op = "probability"
    /\ ret.err = "NotImplementedError" /\ inst.cached_dvc_dz = None

(* ------------------------------------------------------------------ *)
(* Claims about concurrent callers                                     *)
(* ------------------------------------------------------------------ *)
BothReturned == \A t \in Threads : sb[t].pc = "done"

\* dependent modules bound to different backends, or a binding that is not
\* the recorded backend's
Mixed ==
    \/ \E m \in XpModules : xp[m] # NpModule(backend)
    \/ \E m \in ScsModules : scs[m] # ScipyModule(backend)

\* C13: two set_backend calls with different supported names leave the
\* registry consistent whenever one ran after the other returned, and a
\* mixed registry after both returned comes only from steps of one call
\* falling between the unlocked steps of the other; the witness is such an
\* interleaving.
C13_MixedOnlyByOverlap ==
    (BothReturned /\ Mixed) => sbOverlap

C13_Witness ==
    /\ BothReturned
    /\ xp["hyperpe"] # xp["vt"]
    /\ backend \in Supported /\ xp["vt"] # NpModule(backend)

\* the result of a call on its own: p_z times the volume term at its dataset
Alone(t) ==
    Multiply(pr[t].p_z, CacheDvcDz(InstanceAt(pr[t].on), pr[t].ds))

\* C14: a probability call reads a cache slot stored by the other thread's
\* call only when both calls are on the same instance, and a slot is stored
\* only by calls on its own instance; the witness is an interleaving on one
\* instance in which a call that stored the volume term of its own dataset
\* multiplies by the one the other call stored for another dataset.
C14_RaceOnlyOnSharedInstance ==
    /\ \A t \in Threads :
          pr[t].from = Other(t) => pr[t].on = pr[Other(t)].on
    /\ \A i \in 1..2 : writer[i] # 0 => pr[writer[i]].on = i

C14_Witness ==
    /\ pr[1].pc = "done" /\ pr[2].pc = "done"
    /\ pr[1].on = pr[2].on /\ pr[1].ds # pr[2].ds
    /\ pr[1].miss /\ pr[1].from = 2
    /\ pr[1].err = "none" /\ pr[1].res # Alone(1)

(* ------------------------------------------------------------------ *)
(* Claims about the two evolution laws                                 *)
(* ------------------------------------------------------------------ *)
\* the power-law model with the z_max, grid and cache slot of self
PowerLawOf(self) == [ self EXCEPT !.cls = "PowerLawRedshift" ]

\* what the power-law model returns for the dataset with lamb = gamma
PowerLawResult(self, dataset, gamma) ==
    Probability(PowerLawOf(self), dataset, [ lamb |-> gamma ]).res

\* equal within a relative tolerance of 1/1000, elementwise
Close(a, b) ==
    /\ Len(a.v) = Len(b.v)
    /\ \A i \in 1..Len(a.v) :
          \E diff \in { RSub(a.v[i], b.v[i]) } :
              Abs(diff.n) * 1000 * b.v[i].d <= Abs(b.v[i].n) * diff.d

\* C15 as stated: with kappa = gamma the peaked model's probability is, for
\* every dataset and z_peak, the power-law model's with lamb = gamma and the
\* same z_max (within tolerance).
C15_KappaEqualsGamma ==
    [][ ( /\ inst.cls = "MadauDickinsonRedshift"
          /\ ret'.op = "probability" /\ ret' # ret
          /\ ret'.par.kappa = ret'.par.gamma )
        => Close(ret'.res, PowerLawResult(inst, ret'.ds, ret'.par.gamma)) ]_vars

\* C15 amended: with kappa = 0 the peaked model's probability is, for every
\* dataset, gamma and z_peak, exactly the power-law model's with lamb = gamma
\* and the same z_max.
C15_KappaZero ==
    [][ ( /\ inst.cls = "MadauDickinsonRedshift"
          /\ ret'.op = "probability" /\ ret' # ret
          /\ ret'.par.kappa = 0 )
        => ret'.res = PowerLawResult(inst, ret'.ds, ret'.par.gamma) ]_vars

C15_Witness ==
    /\ inst.cls = "MadauDickinsonRedshift" /\ ret.op = "probability"
    /\ ret.par.kappa = 0 /\ ret.par.gamma = 1 /\ ret.err = "none"
    /\ Len(ret.ds.v) = 2 /\ ~ret.hit
    /\ ret.res.v[1] # ret.res.v[2]

(* ------------------------------------------------------------------ *)
(* Claims about the state of an instance                               *)
(* ------------------------------------------------------------------ *)
\* C17: the cache slot is absent as long as no call was made on a newly
\* constructed instance; a normalisation call leaves the instance as it was
\* and returns what it returns with the slot absent; the slot changes only
\* in a probability call (a construction starts a new instance); once
\* filled, no call on the instance makes it absent again.
C17_SlotChangesInProbabilityOnly ==
    /\ [](ret.op = "none" => inst.cached_dvc_dz = None)
    /\ [][ /\ (ret'.op = "normalisation" /\ ret' # ret) =>
                 /\ inst' = inst
                 /\ ret'.res = NormalisationCall(
                                   [ inst EXCEPT !.cached_dvc_dz = None ], ret'.par)
           /\ inst'.cached_dvc_dz # inst.cached_dvc_dz =>
                 ret'.op \in { "probability", "none" }
           /\ (inst.cached_dvc_dz # None /\ ret'.op # "none") =>
                 inst'.cached_dvc_dz # None ]_vars

C17_Witness ==
    /\ ret.op = "normalisation" /\ ret.err = "none"
    /\ inst.cls = "MadauDickinsonRedshift"
    /\ inst.cached_dvc_dz # None /\ Len(inst.cached_dvc_dz.v) = 2

\* what __init__ computes from z_max, apart from the array module
Grid(self) ==
    << self.z_max, self.zs_, self.zs, self.dvc_dz_, self.dvc_dz >>

\* C18: z_max, the grid and the volume term on the grid, in both forms, are
\* what the constructor computed from z_max, and every step that is not the
\* construction of a new instance (normalisation, probability with the slot
\* reused or recomputed, set_backend) leaves them unchanged.
C18_GridIsFrozen ==
    /\ [](/\ inst.zs_.v = linspace(Rat(ZLo, 1), inst.z_max, GridN)
          /\ inst.zs.v = inst.zs_.v
          /\ inst.dvc_dz.v = inst.dvc_dz_.v
          /\ \A i \in 1..GridN :
                inst.dvc_dz_.v[i] =
                    RMul(differential_comoving_volume(inst.zs_.v[i]), Rat(FourPi, 1)))
    /\ [][ (ret'.op # "none" \/ regvars' # regvars) => Grid(inst') = Grid(inst) ]_vars

C18_Witness ==
    /\ ret.op = "probability" /\ ~ret.hit /\ ret.err = "none"
    /\ call.made /\ call.err = NoError /\ backend = "jax"
    /\ inst.zs.t # "jax.numpy" /\ inst.cached_dvc_dz.t = "jax.numpy"

\* C19: a probability call on a well-formed dataset returns an array and
\* raises nothing; when the slot is absent or holds an array that cannot be
\* multiplied into the dataset's shape, the call stores the volume term at
\* the dataset's redshifts in the slot and returns the density times it.
C19_MissIsRecovered ==
    /\ [](ret.op = "probability" => (ret.err = "none" /\ ~IsRaise(ret.res)))
    /\ [][ ( /\ ret'.op = "probability" /\ ret' # ret
              /\ ~CanMultiply(ret'.ds, inst.cached_dvc_dz) )
            => /\ ~ret'.hit
               /\ inst'.cached_dvc_dz = [ t |-> ret'.ds.t, v |-> VolumeAt(ret'.ds) ]
               /\ ret'.vol = inst'.cached_dvc_dz
               /\ Len(ret'.res.v) = Len(ret'.ds.v) ]_vars

C19_Witness ==
    /\ ret.op = "probability" /\ p1.op = "probability"
    /\ Len(ret.ds.v) = 1 /\ Len(p1.vol.v) = 2 /\ ret.ds.t = "numpy"
    /\ ~ret.hit /\ ret.err = "none"
    /\ ret.vol.v = VolumeAt(ret.ds)

====
